---- MODULE Spec2Model ----
(***************************************************************************)
(* Model of src/trading_app.py: a Streamlit script that loads a trading    *)
(* report (CSV), normalises it (load_and_prepare_data), computes summary   *)
(* statistics (calculate_key_stats) and renders four views.                *)
(*                                                                         *)
(* Conventions of the model                                                *)
(*  - a float is a record [k, n, d]: k = "num" is the exact rational n/d   *)
(*    in lowest terms (d > 0), k = "nan" is NaN, k = "inf" is +infinity.   *)
(*    Binary rounding of float64 is not modelled; sums and means are exact.*)
(*  - a value of an object column is [isna, s]: a string or NaN.           *)
(*  - a CSV text cell that is parsed by the code is a tuple of one-letter  *)
(*    strings; the empty tuple is the empty cell.                          *)
(*  - a close-time cell is the tuple of the numeric fields of its text in  *)
(*    the order they are written (the separators are left out).            *)
(*  - the CSV headers are written without their accents and with EUR for   *)
(*    the euro sign.                                                       *)
(*  - the Streamlit and plotting calls draw what they are given and are    *)
(*    taken not to raise; a step of the script is one action.              *)
(***************************************************************************)
EXTENDS Integers, Sequences, FiniteSets, TLC

VARIABLES uploaded_file, trading_data, messages, calc, stats, rendered,
          symbol_performance, performance, day_performance, pc

vars == <<uploaded_file, trading_data, messages, calc, stats, rendered,
          symbol_performance, performance, day_performance, pc>>

(* ------------------------------ bounds --------------------------------- *)

\* largest number of data rows of an uploaded file
MaxRows == 3

\* largest absolute net profit (whole euros) written in a file
MaxAmount == 2

(* ------------------------------ floats --------------------------------- *)

Abs(x) == IF x < 0 THEN -x ELSE x

RECURSIVE GCD(_, _)
GCD(a, b) == IF b = 0 THEN a ELSE GCD(b, a % b)

NaN == [k |-> "nan", n |-> 0, d |-> 1]

Inf == [k |-> "inf", n |-> 1, d |-> 1]

\* the float n/d, d # 0
Rat(n, d) ==
    LET s == IF d < 0 THEN -1 ELSE 1
        g == GCD(Abs(n), Abs(d))
    IN  [k |-> "num", n |-> (s * n) \div g, d |-> (s * d) \div g]

Zero == Rat(0, 1)

IsNum(x) == x.k = "num"

FAdd(x, y) ==
    IF IsNum(x) /\ IsNum(y) THEN Rat(x.n * y.d + y.n * x.d, x.d * y.d) ELSE NaN

FSub(x, y) ==
    IF IsNum(x) /\ IsNum(y) THEN Rat(x.n * y.d - y.n * x.d, x.d * y.d) ELSE NaN

\* IEEE: 0 * NaN is NaN
FMul(x, y) ==
    IF IsNum(x) /\ IsNum(y) THEN Rat(x.n * y.n, x.d * y.d) ELSE NaN

\* x / y for a finite y # 0
FDiv(x, y) ==
    IF IsNum(x) /\ IsNum(y) THEN Rat(x.n * y.d, x.d * y.n) ELSE NaN

FAbs(x) == IF IsNum(x) THEN Rat(Abs(x.n), x.d) ELSE x

\* x > y; every comparison with NaN is False
FGt(x, y) == IsNum(x) /\ IsNum(y) /\ x.n * y.d > y.n * x.d

FGe(x, y) == IsNum(x) /\ IsNum(y) /\ x.n * y.d >= y.n * x.d

\* rounding to 2 decimals, half to even; NaN and inf stay
Round2(x) ==
    IF ~IsNum(x) THEN x
    ELSE LET t == 100 * x.n
             q == t \div x.d
             r == t % x.d
             up == \/ 2 * r > x.d
                   \/ 2 * r = x.d /\ q % 2 = 1
         IN  Rat(IF up THEN q + 1 ELSE q, 100)

(* --------------------------- object values ----------------------------- *)

ObjNaN == [isna |-> TRUE, s |-> ""]

Str(s) == [isna |-> FALSE, s |-> s]

NaT == [nat |-> TRUE, date |-> <<>>, time |-> <<>>]

(* ------------------------- parsing of text cells ------------------------ *)

Digits == {"0", "1", "2", "3", "4", "5", "6", "7", "8", "9"}

DigitVal(c) ==
    CASE c = "0" -> 0 [] c = "1" -> 1 [] c = "2" -> 2 [] c = "3" -> 3
      [] c = "4" -> 4 [] c = "5" -> 5 [] c = "6" -> 6 [] c = "7" -> 7
      [] c = "8" -> 8 [] c = "9" -> 9

RECURSIVE DigitsValue(_)
DigitsValue(s) ==
    IF s = <<>> THEN 0
    ELSE 10 * DigitsValue(SubSeq(s, 1, Len(s) - 1)) + DigitVal(s[Len(s)])

RECURSIVE Pow10(_)
Pow10(e) == IF e = 0 THEN 1 ELSE 10 * Pow10(e - 1)

\* the text of a plain decimal number: [-]digits[.digits], one digit at least
IsNumberText(s) ==
    LET b == IF s # <<>> /\ s[1] = "-" THEN Tail(s) ELSE s
        dots == {i \in 1..Len(b) : b[i] = "."}
    IN  /\ Cardinality(dots) <= 1
        /\ \A i \in 1..Len(b) : b[i] \in Digits \cup {"."}
        /\ \E i \in 1..Len(b) : b[i] \in Digits

\* the value of a text for which IsNumberText holds
NumberValue(s) ==
    LET neg == s[1] = "-"
        b == IF neg THEN Tail(s) ELSE s
        dots == {i \in 1..Len(b) : b[i] = "."}
        p == IF dots = {} THEN Len(b) + 1 ELSE CHOOSE i \in dots : TRUE
        ip == SubSeq(b, 1, p - 1)
        fp == SubSeq(b, p + 1, Len(b))
        mag == DigitsValue(ip) * Pow10(Len(fp)) + DigitsValue(fp)
    IN  Rat(IF neg THEN -mag ELSE mag, Pow10(Len(fp)))

\* pd.to_numeric(errors='coerce') on one cell
ToNumericCoerce(cell) ==
    IF cell = <<>> THEN NaN
    ELSE IF IsNumberText(cell) THEN NumberValue(cell)
    ELSE NaN

\* end of the maximal run of digits of s that starts at i (i - 1 when s[i] is no digit)
RECURSIVE DigitRunEnd(_, _)
DigitRunEnd(s, i) ==
    IF i <= Len(s) /\ s[i] \in Digits THEN DigitRunEnd(s, i + 1) ELSE i - 1

\* whether the pattern \d+\.\d+ matches s at position i
MatchesAt(s, i) ==
    LET e == DigitRunEnd(s, i)
    IN  /\ e >= i
        /\ e + 2 <= Len(s)
        /\ s[e + 1] = "."
        /\ s[e + 2] \in Digits

\* Series.str.extract(r'(\d+\.\d+)') on one string: the first match, or the empty tuple
ExtractDecimal(s) ==
    LET starts == {i \in 1..Len(s) : MatchesAt(s, i)}
    IN  IF starts = {} THEN <<>>
        ELSE LET i == CHOOSE j \in starts : \A h \in starts : j <= h
                 e == DigitRunEnd(s, i)
             IN  SubSeq(s, i, DigitRunEnd(s, e + 2))

\* .str.extract(...).astype(float) on one cell of an object column
LotsOfCell(cell) ==
    IF cell = <<>> THEN NaN
    ELSE LET m == ExtractDecimal(cell)
         IN  IF m = <<>> THEN NaN ELSE NumberValue(m)

IsLeap(y) == (y % 4 = 0 /\ y % 100 # 0) \/ y % 400 = 0

DaysInMonth(y, m) ==
    IF m = 2 THEN (IF IsLeap(y) THEN 29 ELSE 28)
    ELSE IF m \in {4, 6, 9, 11} THEN 30 ELSE 31

\* whether the text matches '%d/%m/%Y %H:%M:%S.%f' and names a real instant
IsCloseTimeText(c) ==
    /\ Len(c) = 7
    /\ c[2] \in 1..12
    /\ c[3] \in 1..9999
    /\ c[1] \in 1..DaysInMonth(c[3], c[2])
    /\ c[4] \in 0..23
    /\ c[5] \in 0..59
    /\ c[6] \in 0..59
    /\ c[7] \in 0..999999

\* pd.to_datetime of one cell that does not raise
ToDatetime(c) ==
    IF c = <<>> THEN NaT
    ELSE [nat |-> FALSE, date |-> <<c[3], c[2], c[1]>>, time |-> <<c[4], c[5], c[6], c[7]>>]

MonthShift == <<0, 3, 2, 5, 0, 3, 5, 1, 4, 6, 2, 4>>

DayNames == <<"Sunday", "Monday", "Tuesday", "Wednesday", "Thursday", "Friday", "Saturday">>

\* Series.dt.day_name() on one value
DayName(t) ==
    IF t.nat THEN ObjNaN
    ELSE LET y == IF t.date[2] < 3 THEN t.date[1] - 1 ELSE t.date[1]
             w == (y + (y \div 4) - (y \div 100) + (y \div 400)
                     + MonthShift[t.date[2]] + t.date[3]) % 7
         IN  Str(DayNames[w + 1])

(* ------------------------------ CSV files ------------------------------ *)

ColKod == "Kod"

ColIrany == "Nyitasi irany"

ColZaras == "Zarasi ido (UTC+0)"

ColNetto == "Netto EUR"

ColEgyenleg == "Egyenleg EUR"

ColMennyiseg == "Zaro mennyiseg"

Header == {ColKod, ColIrany, ColZaras, ColNetto, ColEgyenleg, ColMennyiseg}

DigitChars == <<"0", "1", "2", "3", "4", "5", "6", "7", "8", "9">>

RECURSIVE NatText(_)
NatText(n) ==
    IF n < 10 THEN <<DigitChars[n + 1]>>
    ELSE Append(NatText(n \div 10), DigitChars[(n % 10) + 1])

IntText(n) == IF n < 0 THEN <<"-">> \o NatText(-n) ELSE NatText(n)

Monday1 == <<6, 1, 2025, 10, 0, 0, 0>>

Tuesday1 == <<7, 1, 2025, 18, 30, 15, 250000>>

\* 31 February: the text has the shape of the format and names no day
NoSuchDay == <<31, 2, 2025, 10, 0, 0, 0>>

\* a date without a time of day
DateOnly == <<6, 1, 2025>>

LotsText == <<"0", ".", "5", "0", " ", "L", "o", "t", "s">>

ClosedText == <<"C", "l", "o", "s", "e", "d">>

CommaText == <<"1", ",", "5">>

BaseRow ==
    (ColKod :> "EURUSD") @@ (ColIrany :> "Buy") @@ (ColZaras :> Monday1)
      @@ (ColNetto :> IntText(1)) @@ (ColEgyenleg :> NatText(100))
      @@ (ColMennyiseg :> LotsText)

With(row, col, cell) == [row EXCEPT ![col] = cell]

\* rows that differ in the net profit alone
StatRows ==
    [i \in 1..(2 * MaxAmount + 3) |->
        IF i <= 2 * MaxAmount + 1 THEN With(BaseRow, ColNetto, IntText(i - MaxAmount - 1))
        ELSE IF i = 2 * MaxAmount + 2 THEN With(BaseRow, ColNetto, CommaText)
        ELSE With(BaseRow, ColNetto, <<>>)]

SymbolCells == <<"EURUSD", "XAUUSD", "">>

DirectionCells == <<"Buy", "Sell">>

DayCells == <<Monday1, Tuesday1>>

SignCells == <<IntText(1), IntText(-1)>>

\* rows that differ in symbol, direction, weekday and the sign of the net profit
ViewRows ==
    [i \in 1..24 |->
        LET j == i - 1
        IN  (ColKod :> SymbolCells[(j % 3) + 1])
              @@ (ColIrany :> DirectionCells[((j \div 3) % 2) + 1])
              @@ (ColZaras :> DayCells[((j \div 6) % 2) + 1])
              @@ (ColNetto :> SignCells[((j \div 12) % 2) + 1])
              @@ BaseRow]

\* rows with one field that is malformed, empty or of another shape
LoadRows ==
    << BaseRow,
       With(BaseRow, ColNetto, CommaText),
       With(BaseRow, ColEgyenleg, <<"n", "/", "a">>),
       With(BaseRow, ColMennyiseg, ClosedText),
       With(BaseRow, ColMennyiseg, NatText(2)),
       With(BaseRow, ColMennyiseg, <<>>),
       With(BaseRow, ColZaras, NoSuchDay),
       With(BaseRow, ColZaras, DateOnly),
       With(BaseRow, ColZaras, <<>>) >>

\* the index sequences of length n over 1..k in ascending order
RECURSIVE Ascending(_, _)
Ascending(n, k) ==
    IF n = 0 THEN {<<>>}
    ELSE UNION {{Append(s, j) : j \in (IF n = 1 THEN 1 ELSE s[n - 1])..k} :
                  s \in Ascending(n - 1, k)}

CsvFile(columns, rows) == [none |-> FALSE, columns |-> columns, rows |-> rows]

None == [none |-> TRUE]

\* a file of zero bytes
EmptyFile == CsvFile({}, <<>>)

\* a report that has no close-time column
NoCloseTimeFile ==
    CsvFile(Header \ {ColZaras},
            <<[h \in Header \ {ColZaras} |-> BaseRow[h]]>>)

Families == {StatRows, ViewRows, LoadRows}

\* a report of n rows of one family, the rows picked by the index sequence s
Report(family, s) == CsvFile(Header, [i \in 1..Len(s) |-> family[s[i]]])

(* ------------------------ load_and_prepare_data ------------------------- *)

RenameMap ==
    (ColKod :> "symbol") @@ (ColIrany :> "direction") @@ (ColZaras :> "close_time")
      @@ (ColNetto :> "net_profit") @@ (ColEgyenleg :> "balance")
      @@ (ColMennyiseg :> "lots")

\* the header that df.rename gives the name c
SourceOf(c, columns) == CHOOSE h \in columns : (IF h \in DOMAIN RenameMap THEN RenameMap[h] ELSE h) = c

Renamed(columns) == {IF h \in DOMAIN RenameMap THEN RenameMap[h] ELSE h : h \in columns}

\* pd.read_csv on an empty text cell of a string column gives NaN
ObjOfCell(cell) == IF cell = "" THEN ObjNaN ELSE Str(cell)

\* read_csv gives a column the object dtype when it has no rows or one cell of it
\* is a text that is no number; a column of numbers and empty cells is numeric
IsObjectColumn(cells) ==
    \/ cells = <<>>
    \/ \E i \in 1..Len(cells) : cells[i] # <<>> /\ ~IsNumberText(cells[i])

Column(rows, c) == [i \in 1..Len(rows) |-> rows[i][c]]

\* whether the body of the try block raises
LoadRaises(file) ==
    LET cols == Renamed(file.columns)
    IN  \/ file.columns = {}
        \/ {"close_time", "net_profit", "balance", "lots"} \ cols # {}
        \/ \E i \in 1..Len(file.rows) :
               LET c == file.rows[i][SourceOf("close_time", file.columns)]
               IN  c # <<>> /\ ~IsCloseTimeText(c)
        \/ ~IsObjectColumn(Column(file.rows, SourceOf("lots", file.columns)))

Profitable(net_profit) == FGt(net_profit, Zero)

PreparedRow(raw, columns) ==
    LET cols == Renamed(columns)
        net == ToNumericCoerce(raw[SourceOf("net_profit", columns)])
    IN  [c \in cols \cup {"profitable"} |->
            CASE c = "close_time" -> ToDatetime(raw[SourceOf(c, columns)])
              [] c = "net_profit" -> net
              [] c = "balance" -> ToNumericCoerce(raw[SourceOf(c, columns)])
              [] c = "lots" -> LotsOfCell(raw[SourceOf(c, columns)])
              [] c = "profitable" -> Profitable(net)
              [] OTHER -> ObjOfCell(raw[SourceOf(c, columns)])]

DataFrame(columns, rows) == [none |-> FALSE, columns |-> columns, rows |-> rows]

\* load_and_prepare_data with an except branch that hands back an empty frame
LoadAndPrepareDataEmptyOnError(file) ==
    IF LoadRaises(file) THEN DataFrame({}, <<>>)
    ELSE DataFrame(Renamed(file.columns) \cup {"profitable"},
                   [i \in 1..Len(file.rows) |-> PreparedRow(file.rows[i], file.columns)])

\* the return value of load_and_prepare_data(file)
LoadAndPrepareData(file) ==
    IF LoadRaises(file) THEN None
    ELSE DataFrame(Renamed(file.columns) \cup {"profitable"},
                   [i \in 1..Len(file.rows) |-> PreparedRow(file.rows[i], file.columns)])

(* -------------------------- calculate_key_stats ------------------------- *)

\* Series.sum(): NaN is skipped, the sum of nothing is 0
RECURSIVE SumSkipNa(_)
SumSkipNa(xs) ==
    IF xs = <<>> THEN Zero
    ELSE IF IsNum(xs[1]) THEN FAdd(xs[1], SumSkipNa(Tail(xs)))
    ELSE SumSkipNa(Tail(xs))

CountPresent(xs) == Cardinality({i \in 1..Len(xs) : IsNum(xs[i])})

\* Series.mean(): NaN is skipped, the mean of nothing is NaN
MeanSkipNa(xs) ==
    IF CountPresent(xs) = 0 THEN NaN
    ELSE FDiv(SumSkipNa(xs), Rat(CountPresent(xs), 1))

WinningTrades(rows) == SelectSeq(rows, LAMBDA r : r["profitable"] = TRUE)

\* losing trades taken as the trades of negative net profit
LosingTradesNegative(rows) ==
    SelectSeq(rows, LAMBDA r : FGt(Zero, r["net_profit"]))

LosingTrades(rows) == SelectSeq(rows, LAMBDA r : r["profitable"] = FALSE)

\* profit factor with 0 in place of infinity
ProfitFactorZero(total_gains, total_losses) ==
    IF FGt(total_losses, Zero) THEN FDiv(total_gains, total_losses) ELSE Zero

ProfitFactor(total_gains, total_losses) ==
    IF FGt(total_losses, Zero) THEN FDiv(total_gains, total_losses) ELSE Inf

\* average loss over the trades of negative net profit alone
AvgLossOfNegatives(losing_trades) ==
    LET neg == SelectSeq(Column(losing_trades, "net_profit"), LAMBDA x : FGt(Zero, x))
    IN  IF Len(neg) > 0 THEN MeanSkipNa(neg) ELSE Zero

AvgLoss(losing_trades) ==
    IF Len(losing_trades) > 0 THEN MeanSkipNa(Column(losing_trades, "net_profit")) ELSE Zero

AvgWin(winning_trades) ==
    IF Len(winning_trades) > 0 THEN MeanSkipNa(Column(winning_trades, "net_profit")) ELSE Zero

WinRate(wins, total_trades) ==
    IF total_trades > 0 THEN FMul(Rat(wins, total_trades), Rat(100, 1)) ELSE Zero

\* expectancy with the win rate taken as a fraction although it is a percentage
ExpectancyUnscaled(win_rate, avg_win, avg_loss) ==
    FAdd(FMul(win_rate, avg_win), FMul(FSub(Rat(1, 1), win_rate), avg_loss))

Expectancy(win_rate, avg_win, avg_loss) ==
    FAdd(FMul(FDiv(win_rate, Rat(100, 1)), avg_win),
         FMul(FDiv(FSub(Rat(100, 1), win_rate), Rat(100, 1)), avg_loss))

\* the local variables of calculate_key_stats(df) at its return
KeyStatsLocals(df) ==
    LET total_trades == Len(df.rows)
        winning_trades == WinningTrades(df.rows)
        losing_trades == LosingTrades(df.rows)
        win_rate == WinRate(Len(winning_trades), total_trades)
        total_profit == SumSkipNa(Column(df.rows, "net_profit"))
        total_gains == SumSkipNa(Column(winning_trades, "net_profit"))
        total_losses == FAbs(SumSkipNa(Column(losing_trades, "net_profit")))
        avg_win == AvgWin(winning_trades)
        avg_loss == AvgLoss(losing_trades)
    IN  [total_trades |-> total_trades,
         wins |-> Len(winning_trades),
         losses |-> Len(losing_trades),
         win_rate |-> win_rate,
         total_profit |-> total_profit,
         total_gains |-> total_gains,
         total_losses |-> total_losses,
         avg_win |-> avg_win,
         avg_loss |-> avg_loss,
         profit_factor |-> ProfitFactor(total_gains, total_losses),
         expectancy |-> Expectancy(win_rate, avg_win, avg_loss)]

\* the dictionary calculate_key_stats returns: the values as formatted with 2 decimals
KeyStatsDict(l) ==
    [total_trades |-> l.total_trades,
     win_rate |-> Round2(l.win_rate),
     total_profit |-> Round2(l.total_profit),
     profit_factor |-> Round2(l.profit_factor),
     expectancy |-> Round2(l.expectancy),
     avg_win |-> Round2(l.avg_win),
     avg_loss |-> Round2(l.avg_loss)]

(* ------------------------------- groupby -------------------------------- *)

\* the strings of the key columns in sort order
Alphabetical ==
    <<"Buy", "EURUSD", "Friday", "Monday", "Saturday", "Sell", "Sunday",
      "Thursday", "Tuesday", "Wednesday", "XAUUSD">>

\* the group keys of df.groupby(col): the values of col that are not NaN, sorted
GroupKeys(rows, col) ==
    SelectSeq(Alphabetical, LAMBDA key : \E i \in 1..Len(rows) : rows[i][col] = Str(key))

Group(rows, col, key) == SelectSeq(rows, LAMBDA r : r[col] = Str(key))

\* the aggregation 'count' of the column symbol: the values that are not NaN
TradeCount(group) == Cardinality({i \in 1..Len(group) : ~group[i]["symbol"].isna})

\* lambda x: x.mean() * 100 on the column profitable of a group
GroupWinRate(group) ==
    FMul(Rat(Cardinality({i \in 1..Len(group) : group[i]["profitable"]}), Len(group)),
         Rat(100, 1))

\* one row of groupby(col).agg(total_profit=..., trade_count=..., win_rate=...)
AggRow(key, group) ==
    [key |-> key,
     total_profit |-> SumSkipNa(Column(group, "net_profit")),
     trade_count |-> TradeCount(group),
     win_rate |-> GroupWinRate(group)]

Agg(rows, col) ==
    LET keys == GroupKeys(rows, col)
    IN  [i \in 1..Len(keys) |-> AggRow(keys[i], Group(rows, col, keys[i]))]

RoundRow(r) ==
    [r EXCEPT !.total_profit = Round2(r.total_profit), !.win_rate = Round2(r.win_rate)]

\* sort_values('total_profit', ascending=True); rows of equal profit keep their order
RECURSIVE SortByProfit(_)
SortByProfit(t) ==
    IF t = <<>> THEN <<>>
    ELSE LET s == SortByProfit(SubSeq(t, 1, Len(t) - 1))
             x == t[Len(t)]
             k == Cardinality({i \in 1..Len(s) : ~FGt(s[i].total_profit, x.total_profit)})
         IN  SubSeq(s, 1, k) \o <<x>> \o SubSeq(s, k + 1, Len(s))

\* the table of tab2
SymbolPerformance(df) ==
    LET agg == Agg(df.rows, "symbol")
    IN  [rows |-> SortByProfit([i \in 1..Len(agg) |-> RoundRow(agg[i])])]

(* -------------------------- direction breakdown ------------------------- *)

ColumnName(b) == IF b THEN "Nyero (%)" ELSE "Veszto (%)"

\* groupby('direction')['profitable'].value_counts(normalize=True): the share of
\* each value of profitable that occurs in the group
ValueShare(group, b) ==
    Rat(Cardinality({i \in 1..Len(group) : group[i]["profitable"] = b}), Len(group))

Occurs(group, b) == \E i \in 1..Len(group) : group[i]["profitable"] = b

\* unstack(): the columns are the values of profitable that occur in some group
UnstackColumns(rows) ==
    {b \in BOOLEAN : \E i \in 1..Len(rows) :
        ~rows[i]["direction"].isna /\ rows[i]["profitable"] = b}

Unstacked(group, b) == IF Occurs(group, b) THEN ValueShare(group, b) ELSE NaN

FillNa0(x) == IF x.k = "nan" THEN Zero ELSE x

\* the table of tab3: its columns and one row per direction
Performance(df) ==
    LET keys == GroupKeys(df.rows, "direction")
        cols == UnstackColumns(df.rows)
    IN  [columns |-> {ColumnName(b) : b \in cols},
         rows |-> [i \in 1..Len(keys) |->
                     [key |-> keys[i],
                      pct |-> [c \in {ColumnName(b) : b \in cols} |->
                                 LET b == CHOOSE v \in cols : ColumnName(v) = c
                                     g == Group(df.rows, "direction", keys[i])
                                 IN  Round2(FMul(FillNa0(Unstacked(g, b)), Rat(100, 1)))]]]]

(* --------------------------- weekday breakdown -------------------------- *)

days_order ==
    <<"Monday", "Tuesday", "Wednesday", "Thursday", "Friday", "Saturday", "Sunday">>

\* trading_data['day_of_week'] = trading_data['close_time'].dt.day_name()
WithDayOfWeek(df) ==
    DataFrame(df.columns \cup {"day_of_week"},
              [i \in 1..Len(df.rows) |->
                  ("day_of_week" :> DayName(df.rows[i]["close_time"])) @@ df.rows[i]])

\* reindex(days_order): a row for each day, all NaN for a day that has no group
Reindexed(agg) ==
    [d \in 1..Len(days_order) |->
        IF \E i \in 1..Len(agg) : agg[i].key = days_order[d]
        THEN LET r == agg[CHOOSE i \in 1..Len(agg) : agg[i].key = days_order[d]]
             IN  [key |-> r.key, total_profit |-> r.total_profit,
                  trade_count |-> Rat(r.trade_count, 1), win_rate |-> r.win_rate]
        ELSE [key |-> days_order[d], total_profit |-> NaN, trade_count |-> NaN,
              win_rate |-> NaN]]

\* dropna(): the rows without any NaN
DropNa(t) ==
    SelectSeq(t, LAMBDA r : r.total_profit.k # "nan" /\ r.trade_count.k # "nan"
                              /\ r.win_rate.k # "nan")

RoundDayRow(r) ==
    [r EXCEPT !.total_profit = Round2(r.total_profit),
              !.trade_count = Round2(r.trade_count),
              !.win_rate = Round2(r.win_rate)]

\* the table of tab4, computed on the data frame that has the column day_of_week
DayPerformance(df) ==
    LET t == DropNa(Reindexed(Agg(df.rows, "day_of_week")))
    IN  [rows |-> [i \in 1..Len(t) |-> RoundDayRow(t[i])]]

(* ------------------------------ the script ------------------------------ *)

\* The uploader holds no file, or a file of at most MaxRows rows of one family.
\* No aggregate of the program depends on the order of the rows, so the rows of a
\* report are taken in one order per multiset.
Init ==
    /\ \/ uploaded_file \in {None, EmptyFile, NoCloseTimeFile}
       \/ \E family \in Families : \E n \in 0..MaxRows :
             \E s \in Ascending(n, Len(family)) : uploaded_file = Report(family, s)
    /\ trading_data = None
    /\ messages = <<>>
    /\ calc = None
    /\ stats = None
    /\ rendered = <<>>
    /\ symbol_performance = None
    /\ performance = None
    /\ day_performance = None
    /\ pc = "start"

\* no file is uploaded: st.info
NoFile ==
    /\ pc = "start"
    /\ uploaded_file = None
    /\ messages' = Append(messages, "info")
    /\ pc' = "done"
    /\ UNCHANGED <<uploaded_file, trading_data, calc, stats, rendered,
                   symbol_performance, performance, day_performance>>

\* trading_data = load_and_prepare_data(uploaded_file); the except branch calls st.error
Load ==
    /\ pc = "start"
    /\ uploaded_file # None
    /\ trading_data' = LoadAndPrepareData(uploaded_file)
    /\ messages' = IF LoadRaises(uploaded_file) THEN Append(messages, "error") ELSE messages
    /\ pc' = "loaded"
    /\ UNCHANGED <<uploaded_file, calc, stats, rendered,
                   symbol_performance, performance, day_performance>>

\* trading_data is None: nothing more is shown
NoData ==
    /\ pc = "loaded"
    /\ trading_data = None
    /\ pc' = "done"
    /\ UNCHANGED <<uploaded_file, trading_data, messages, calc, stats, rendered,
                   symbol_performance, performance, day_performance>>

\* stats = calculate_key_stats(trading_data) and the four metrics
KeyStats ==
    /\ pc = "loaded"
    /\ trading_data # None
    /\ calc' = KeyStatsLocals(trading_data)
    /\ stats' = KeyStatsDict(KeyStatsLocals(trading_data))
    /\ rendered' = Append(rendered, "metrics")
    /\ pc' = "tab1"
    /\ UNCHANGED <<uploaded_file, trading_data, messages,
                   symbol_performance, performance, day_performance>>

\* the equity curve
Tab1 ==
    /\ pc = "tab1"
    /\ rendered' = Append(rendered, "equity")
    /\ pc' = "tab2"
    /\ UNCHANGED <<uploaded_file, trading_data, messages, calc, stats,
                   symbol_performance, performance, day_performance>>

\* the per-instrument table and chart
Tab2 ==
    /\ pc = "tab2"
    /\ symbol_performance' = SymbolPerformance(trading_data)
    /\ rendered' = Append(rendered, "symbols")
    /\ pc' = "tab3"
    /\ UNCHANGED <<uploaded_file, trading_data, messages, calc, stats,
                   performance, day_performance>>

\* the direction table and chart
Tab3 ==
    /\ pc = "tab3"
    /\ performance' = Performance(trading_data)
    /\ rendered' = Append(rendered, "directions")
    /\ pc' = "tab4"
    /\ UNCHANGED <<uploaded_file, trading_data, messages, calc, stats,
                   symbol_performance, day_performance>>

\* the weekday table and chart; the column day_of_week is added to trading_data
Tab4 ==
    /\ pc = "tab4"
    /\ trading_data' = WithDayOfWeek(trading_data)
    /\ day_performance' = DayPerformance(WithDayOfWeek(trading_data))
    /\ rendered' = Append(rendered, "weekdays")
    /\ pc' = "done"
    /\ UNCHANGED <<uploaded_file, messages, calc, stats,
                   symbol_performance, performance>>

Next == NoFile \/ Load \/ NoData \/ KeyStats \/ Tab1 \/ Tab2 \/ Tab3 \/ Tab4

Spec == Init /\ [][Next]_vars

(* ------------------------------ properties ----------------------------- *)

Loaded == trading_data # None

\* the net profits of the loaded record set
NetProfits == Column(trading_data.rows, "net_profit")

ErrorCount == Cardinality({i \in 1..Len(messages) : messages[i] = "error"})

NothingComputed ==
    /\ calc = None
    /\ stats = None
    /\ rendered = <<>>
    /\ symbol_performance = None
    /\ performance = None
    /\ day_performance = None

\* C1 as stated: profit_factor is infinite if and only if total losses are 0 and
\* the record set has at least one trade
C1_InfiniteIffNoLossesAndATrade ==
    calc # None =>
        (calc.profit_factor = Inf <=> (calc.total_losses = Zero /\ calc.total_trades >= 1))

\* C1 as amended: profit_factor is infinite if and only if total losses are 0, that
\* is if and only if no trade has a negative net profit; the empty record set included
C1_InfiniteIffNoLosses ==
    calc # None =>
        /\ calc.profit_factor = Inf <=> calc.total_losses = Zero
        /\ calc.total_losses = Zero <=>
             ~\E i \in 1..Len(NetProfits) : FGt(Zero, NetProfits[i])

\* the empty record set is loaded and its profit factor is infinite
C1_Witness ==
    /\ calc # None
    /\ calc.total_trades = 0
    /\ calc.profit_factor = Inf

RECURSIVE SumTradeCount(_)
SumTradeCount(t) == IF t = <<>> THEN 0 ELSE t[1].trade_count + SumTradeCount(Tail(t))

\* C2 as stated: the trade_count values of the per-symbol table sum to the total
\* trade count of calculate_key_stats
C2_SymbolCountsSumToTotal ==
    symbol_performance # None =>
        SumTradeCount(symbol_performance.rows) = calc.total_trades

\* C3 as stated: every row of the weekday table has a trade_count of at least 1 and
\* no weekday on which no trade closed has a row
C3_NoWeekdayWithoutTrades ==
    day_performance # None =>
        \A i \in 1..Len(day_performance.rows) :
            /\ FGe(day_performance.rows[i].trade_count, Rat(1, 1))
            /\ \E j \in 1..Len(trading_data.rows) :
                 DayName(trading_data.rows[j]["close_time"])
                   = Str(day_performance.rows[i].key)

\* C4: after a load that raised there is exactly one error message, no data and
\* nothing computed or rendered; whatever is computed or rendered rests on a load
\* that returned a record set without an error message
C4_FailureShowsOneErrorAndNothingElse ==
    /\ (pc # "start" /\ uploaded_file # None /\ LoadRaises(uploaded_file)) =>
          (ErrorCount = 1 /\ ~Loaded /\ NothingComputed)
    /\ ~NothingComputed => (Loaded /\ ErrorCount = 0 /\ ~LoadRaises(uploaded_file))

\* a load has raised and the script has run to its end
C4_Witness ==
    /\ pc = "done"
    /\ uploaded_file # None
    /\ LoadRaises(uploaded_file)
    /\ messages = <<"error">>
    /\ NothingComputed

\* a report with the full header whose close times are all parseable or empty
OnlyValuesMalformed(file) ==
    /\ file.columns = Header
    /\ \A i \in 1..Len(file.rows) :
         file.rows[i][ColZaras] = <<>> \/ IsCloseTimeText(file.rows[i][ColZaras])

\* C5 as stated: a malformed net profit, balance or lot size never aborts the load;
\* the record set has every row of the file and the malformed field is missing
C5_MalformedValueNeverAborts ==
    (pc # "start" /\ uploaded_file # None /\ OnlyValuesMalformed(uploaded_file)) =>
        /\ Loaded
        /\ Len(trading_data.rows) = Len(uploaded_file.rows)
        /\ \A i \in 1..Len(uploaded_file.rows) :
             /\ ~IsNumberText(uploaded_file.rows[i][ColNetto])
                  => trading_data.rows[i]["net_profit"] = NaN
             /\ ~IsNumberText(uploaded_file.rows[i][ColEgyenleg])
                  => trading_data.rows[i]["balance"] = NaN
             /\ ExtractDecimal(uploaded_file.rows[i][ColMennyiseg]) = <<>>
                  => trading_data.rows[i]["lots"] = NaN

\* C6: win_rate lies in [0, 100] and is 0 for the empty record set; the winning and
\* the non-winning trades together are all the trades
C6_WinRateRangeAndPartition ==
    calc # None =>
        /\ FGe(calc.win_rate, Zero)
        /\ FGe(Rat(100, 1), calc.win_rate)
        /\ calc.total_trades = 0 => calc.win_rate = Zero
        /\ calc.wins + calc.losses = calc.total_trades
        /\ calc.total_trades = Len(trading_data.rows)

\* statistics of a record set with a winning trade, a trade of net profit 0 and a
\* trade whose net profit is missing
C6_Witness ==
    /\ calc # None
    /\ calc.wins >= 1
    /\ calc.losses >= 2
    /\ \E i \in 1..Len(NetProfits) : NetProfits[i] = NaN
    /\ \E i \in 1..Len(NetProfits) : NetProfits[i] = Zero

\* the net profits that are negative
Negatives == SelectSeq(NetProfits, LAMBDA x : FGt(Zero, x))

\* the net profits that are 0 or negative
NonPositives == SelectSeq(NetProfits, LAMBDA x : FGe(Zero, x))

\* the trades that are not winning: net profit 0, negative or missing
NonWinning == SelectSeq(NetProfits, LAMBDA x : ~FGt(x, Zero))

RECURSIVE SumOf(_)
SumOf(xs) == IF xs = <<>> THEN Zero ELSE FAdd(xs[1], SumOf(Tail(xs)))

MeanOf(xs) == FDiv(SumOf(xs), Rat(Len(xs), 1))

\* C7 as stated: the average loss is the mean of the negative net profits, 0 when
\* there is none
C7_AvgLossIsMeanOfNegatives ==
    calc # None =>
        calc.avg_loss = (IF Negatives = <<>> THEN Zero ELSE MeanOf(Negatives))

\* C7 as amended: the average loss is the mean of the net profits that are 0 or
\* negative, the trades of net profit 0 counted in; it is 0 when no trade is
\* non-winning and NaN when every non-winning trade has a missing net profit
C7_AvgLossIsMeanOfNonPositives ==
    calc # None =>
        calc.avg_loss = (IF NonWinning = <<>> THEN Zero
                         ELSE IF NonPositives = <<>> THEN NaN
                         ELSE MeanOf(NonPositives))

\* statistics of a record set with a negative trade and a trade of net profit 0,
\* where the average loss is not the mean of the negative net profits
C7_Witness ==
    /\ calc # None
    /\ \E i \in 1..Len(NetProfits) : NetProfits[i] = Zero
    /\ \E i \in 1..Len(NetProfits) : FGt(Zero, NetProfits[i])
    /\ calc.avg_loss # MeanOf(Negatives)

\* C8 as stated: for a record set that is not empty, every direction has a winning
\* and a losing percentage, a combination without trades is 0, and the two sum to 100
C8_BothPercentagesPerDirection ==
    (performance # None /\ trading_data.rows # <<>>) =>
        \A i \in 1..Len(performance.rows) :
            LET pct == performance.rows[i].pct
                g == Group(trading_data.rows, "direction", performance.rows[i].key)
            IN  /\ DOMAIN pct = {ColumnName(TRUE), ColumnName(FALSE)}
                /\ FAdd(pct[ColumnName(TRUE)], pct[ColumnName(FALSE)]) = Rat(100, 1)
                /\ \A b \in BOOLEAN : ~Occurs(g, b) => pct[ColumnName(b)] = Zero

\* C9 as stated: once loaded, the record set is never changed
C9_RecordSetImmutable == [][Loaded => trading_data' = trading_data]_vars

\* C10: for a record set that is not empty and has every net profit, expectancy
\* times the trade count is the total net profit, and the total net profit is the
\* total gains minus the total losses
C10_ExpectancyIsMeanProfit ==
    (calc # None /\ calc.total_trades > 0
       /\ \A i \in 1..Len(NetProfits) : IsNum(NetProfits[i])) =>
        /\ FMul(calc.expectancy, Rat(calc.total_trades, 1)) = calc.total_profit
        /\ calc.total_profit = FSub(calc.total_gains, calc.total_losses)
        /\ calc.total_profit = SumOf(NetProfits)

\* statistics of three trades, all net profits present: one 0, one negative, one
\* greater than 1
C10_Witness ==
    /\ calc # None
    /\ calc.total_trades = 3
    /\ \E i \in 1..Len(NetProfits) : NetProfits[i] = Zero
    /\ \E i \in 1..Len(NetProfits) : FGt(Zero, NetProfits[i])
    /\ \E i \in 1..Len(NetProfits) : FGt(NetProfits[i], Rat(1, 1))

====
